---------------------------- MODULE Spec2Model ----------------------------
(***************************************************************************)
(* A model of photo_grid.py (PhotoGridWindow): the session image list, the *)
(* layout planner (_gather_settings), page chunking (_chunk_images) and    *)
(* the preview / save request lifecycle with its ImageMagick invocations.  *)
(*                                                                         *)
(* Strings that the program formats and parses again (the tile spec, file  *)
(* names) are sequences of one-character strings.  Paper sizes are kept in *)
(* hundredths of an inch, so that int(pw * dpi) is an integer division.    *)
(***************************************************************************)
EXTENDS Integers, Sequences, FiniteSets, TLC

VARIABLES
    images,        \* self.images: the list of image paths
    stamp,         \* history: path -> value of clock when it was appended
    clock,         \* history: number of appends so far
    paper,         \* paper_row.get_selected()   (0-based)
    orient,        \* orient_row.get_selected()  (0 portrait, 1 landscape)
    dpiSel,        \* dpi_row.get_selected()     (0-based)
    layout,        \* layout_row.get_selected()  (0-based)
    border,        \* border_row.get_value()
    spacing,       \* spacing_row.get_value()
    margin,        \* margin_row.get_value()
    fill,          \* fill_row.get_selected() == 1
    pdf,           \* pdf_row.get_active()
    magick,        \* shutil.which("magick") finds the tool
    s,             \* <<>> or <<settings>>: the snapshot of the running request
    chunks,        \* the chunks computed for the running request
    pc,            \* position of the running request
    kind,          \* "preview" or "save": which handler is running
    dest,          \* destination file name chosen in the save dialog
    page,          \* 1-based index of the page being rendered
    pageFiles,     \* paths appended by _run_all_pages so far
    log,           \* history: the subprocesses launched by the request
    events,        \* history: settings gathered / dialog opened by the request
    toast,         \* last notification of the request
    previewWin,    \* self._preview_win is not None
    previewPages,  \* self._preview_pages
    previewIdx     \* self._preview_idx

vars == <<images, stamp, clock, paper, orient, dpiSel, layout, border, spacing,
          margin, fill, pdf, magick, s, chunks, pc, kind, dest, page,
          pageFiles, log, events, toast, previewWin, previewPages, previewIdx>>

uiVars == <<paper, orient, dpiSel, layout, border, spacing, margin, fill, pdf>>
imgVars == <<images, stamp, clock>>
reqVars == <<s, chunks, pc, kind, dest, page, pageFiles, log, events, toast>>
pvVars == <<previewWin, previewPages, previewIdx>>

----------------------------------------------------------------------------
(* Program constants *)

\* name |-> <<width, height>> in hundredths of an inch, portrait
PAPERS ==
    [p \in {"4 x 6 in", "5 x 7 in", "A5", "A4", "A3", "Letter", "Legal",
            "Square 8 in", "Square 12 in"} |->
        CASE p = "4 x 6 in"     -> <<400, 600>>
          [] p = "5 x 7 in"     -> <<500, 700>>
          [] p = "A5"           -> <<583, 827>>
          [] p = "A4"           -> <<827, 1169>>
          [] p = "A3"           -> <<1169, 1654>>
          [] p = "Letter"       -> <<850, 1100>>
          [] p = "Legal"        -> <<850, 1400>>
          [] p = "Square 8 in"  -> <<800, 800>>
          [] p = "Square 12 in" -> <<1200, 1200>>]

PAPER_NAMES ==
    <<"4 x 6 in", "5 x 7 in", "A5", "A4", "A3", "Letter", "Legal",
      "Square 8 in", "Square 12 in">>

\* label |-> <<columns, rows>>; <<0, 0>> = auto
LAYOUTS ==
    [l \in {"Full Page (1)", "2 per page", "2 x 2 (4)", "3 x 3 (9)",
            "4 x 4 (16)", "5 x 5 (25)", "Contact Sheet"} |->
        CASE l = "Full Page (1)" -> <<1, 1>>
          [] l = "2 per page"    -> <<1, 2>>
          [] l = "2 x 2 (4)"     -> <<2, 2>>
          [] l = "3 x 3 (9)"     -> <<3, 3>>
          [] l = "4 x 4 (16)"    -> <<4, 4>>
          [] l = "5 x 5 (25)"    -> <<5, 5>>
          [] l = "Contact Sheet" -> <<0, 0>>]

LAYOUT_NAMES ==
    <<"Full Page (1)", "2 per page", "2 x 2 (4)", "3 x 3 (9)", "4 x 4 (16)",
      "5 x 5 (25)", "Contact Sheet">>

DPI_CHOICES == <<150, 300, 600>>

PREVIEW_DPI == 72

MIN_CELL == 64

CONTACT_COLS == 6

BORDER_MAX == 50

SPACING_MAX == 50

MARGIN_MAX == 100

\* the values the form's spin rows are set to in the model: both ends of
\* each range and the value the window starts with
BorderValues == {0, 2, BORDER_MAX}

SpacingValues == {0, 4, SPACING_MAX}

MarginValues == {0, 20, MARGIN_MAX}

----------------------------------------------------------------------------
(* Text helpers: str(n), int(text), text.split(sep) *)

Digits == <<"0", "1", "2", "3", "4", "5", "6", "7", "8", "9">>

RECURSIVE IntToStr(_)
IntToStr(n) ==
    IF n < 10 THEN <<Digits[n + 1]>>
    ELSE IntToStr(n \div 10) \o <<Digits[(n % 10) + 1]>>

DigitVal(c) == CHOOSE d \in 0..9 : Digits[d + 1] = c

RECURSIVE StrToInt(_)
StrToInt(t) ==
    IF Len(t) = 1 THEN DigitVal(t[1])
    ELSE 10 * StrToInt(SubSeq(t, 1, Len(t) - 1)) + DigitVal(t[Len(t)])

\* the pieces of t between occurrences of the character sep
RECURSIVE Split(_, _)
Split(t, sep) ==
    IF \A k \in 1..Len(t) : t[k] # sep THEN <<t>>
    ELSE LET k == CHOOSE j \in 1..Len(t) :
                      t[j] = sep /\ \A m \in 1..(j - 1) : t[m] # sep
         IN <<SubSeq(t, 1, k - 1)>> \o Split(SubSeq(t, k + 1, Len(t)), sep)

Max(a, b) == IF a >= b THEN a ELSE b

Min(a, b) == IF a <= b THEN a ELSE b

----------------------------------------------------------------------------
(* Layout planner: _gather_settings *)

\* variant: round(inches * dpi) in place of int(...)
CanvasPxRounded(hundredths, dpi) == (hundredths * dpi + 50) \div 100

\* int(inches * dpi) for a size given in hundredths of an inch
CanvasPx(hundredths, dpi) == (hundredths * dpi) \div 100

\* variant: the max(..., 64) lines left out
GridCellNoClamp(canvas, n, m, b, sp) ==
    (canvas - 2 * m - n * 2 * (b + sp)) \div n

\* variant: border and spacing counted on one side of a cell only
GridCellSingleGap(canvas, n, m, b, sp) ==
    Max((canvas - 2 * m - n * (b + sp)) \div n, MIN_CELL)

\* (canvas - 2*margin - n*2*(border+spacing)) // n, clamped to the floor
GridCell(canvas, n, m, b, sp) ==
    Max((canvas - 2 * m - n * 2 * (b + sp)) \div n, MIN_CELL)

\* contact sheet: (canvas_w - 2*margin) // 6
ContactCell(canvas, m) == (canvas - 2 * m) \div CONTACT_COLS

TileSpec(cols, rows) == IntToStr(cols) \o <<"x">> \o IntToStr(rows)

\* dpi_override = 0 stands for None (both are falsy in "dpi_override or ...")
GatherSettings(dpi_override) ==
    LET size == PAPERS[PAPER_NAMES[paper + 1]]
        pw   == IF orient = 1 THEN size[2] ELSE size[1]
        ph   == IF orient = 1 THEN size[1] ELSE size[2]
        dpi  == IF dpi_override # 0 THEN dpi_override
                ELSE DPI_CHOICES[dpiSel + 1]
        grid == LAYOUTS[LAYOUT_NAMES[layout + 1]]
        cols == grid[1]
        rows == grid[2]
        cw   == CanvasPx(pw, dpi)
        ch   == CanvasPx(ph, dpi)
        conc == cols > 0 /\ rows > 0
    IN [tile     |-> IF conc THEN TileSpec(cols, rows) ELSE <<>>,
        cell_w   |-> IF conc THEN GridCell(cw, cols, margin, border, spacing)
                     ELSE ContactCell(cw, margin),
        cell_h   |-> IF conc THEN GridCell(ch, rows, margin, border, spacing)
                     ELSE ContactCell(cw, margin),
        border   |-> border,
        spacing  |-> spacing,
        margin   |-> margin,
        canvas_w |-> cw,
        canvas_h |-> ch,
        dpi      |-> dpi,
        fill     |-> fill,
        pdf      |-> pdf]

----------------------------------------------------------------------------
(* Chunking: _chunk_images *)

\* variant: only full pages, range(0, len(imgs) - per_page + 1, per_page)
RECURSIVE SlicesDropPartial(_, _)
SlicesDropPartial(imgs, per_page) ==
    IF Len(imgs) < per_page THEN <<>>
    ELSE <<SubSeq(imgs, 1, per_page)>>
         \o SlicesDropPartial(SubSeq(imgs, per_page + 1, Len(imgs)), per_page)

\* [imgs[i : i + per_page] for i in range(0, len(imgs), per_page)]
RECURSIVE Slices(_, _)
Slices(imgs, per_page) ==
    IF Len(imgs) = 0 THEN <<>>
    ELSE <<SubSeq(imgs, 1, Min(per_page, Len(imgs)))>>
         \o Slices(SubSeq(imgs, Min(per_page, Len(imgs)) + 1, Len(imgs)),
                   per_page)

\* variant: the contact sheet paged by CONTACT_COLS like a grid
ChunkImagesAuto(imgs, st) ==
    IF st.tile # <<>>
    THEN LET parts == Split(st.tile, "x")
         IN Slices(imgs, StrToInt(parts[1]) * StrToInt(parts[2]))
    ELSE Slices(imgs, CONTACT_COLS)

ChunkImages(imgs, st) ==
    IF st.tile # <<>>
    THEN LET parts == Split(st.tile, "x")
             cols  == StrToInt(parts[1])
             rows  == StrToInt(parts[2])
         IN Slices(imgs, cols * rows)
    ELSE <<imgs>>

----------------------------------------------------------------------------
(* File names: Path(dest).stem / .suffix / .with_name, str.lower().endswith *)

PageName(i) == <<"p", "a", "g", "e", "-">> \o IntToStr(i) \o <<".", "p", "n", "g">>

\* a file in the request's private temporary directory
TmpPath(i) == [dir |-> "tmp", name |-> PageName(i)]

\* a file beside the destination chosen in the save dialog
OutPath(name) == [dir |-> "out", name |-> name]

\* index of the last "." of name, 0 when there is none
LastDot(name) ==
    IF \A k \in 1..Len(name) : name[k] # "." THEN 0
    ELSE CHOOSE k \in 1..Len(name) :
             name[k] = "." /\ \A m \in (k + 1)..Len(name) : name[m] # "."

\* a leading dot or a trailing dot starts no suffix
HasSuffix(name) == 1 < LastDot(name) /\ LastDot(name) < Len(name)

Suffix(name) ==
    IF HasSuffix(name) THEN SubSeq(name, LastDot(name), Len(name)) ELSE <<>>

Stem(name) ==
    IF HasSuffix(name) THEN SubSeq(name, 1, LastDot(name) - 1) ELSE name

LowerChar(c) ==
    CASE c = "P" -> "p"
      [] c = "D" -> "d"
      [] c = "F" -> "f"
      [] c = "G" -> "g"
      [] OTHER   -> c

Lower(name) == [k \in 1..Len(name) |-> LowerChar(name[k])]

EndsWith(name, tail) ==
    /\ Len(name) >= Len(tail)
    /\ SubSeq(name, Len(name) - Len(tail) + 1, Len(name)) = tail

DotPdf == <<".", "p", "d", "f">>

DotJpg == <<".", "j", "p", "g">>

\* variant: dest.endswith(".pdf") without lower()
PdfDestCaseSensitive(name) ==
    IF EndsWith(name, DotPdf) THEN name ELSE name \o DotPdf

\* if not dest.lower().endswith(".pdf"): dest += ".pdf"
PdfDest(name) == IF EndsWith(Lower(name), DotPdf) THEN name ELSE name \o DotPdf

\* variant: enumerate(chunks) without the start index 1
SiblingNameZeroBased(name, i) ==
    LET ext == IF Suffix(name) # <<>> THEN Suffix(name) ELSE DotJpg
    IN Stem(name) \o <<"-">> \o IntToStr(i - 1) \o ext

\* p.with_name(f"{stem}-{i}{ext}") with ext = p.suffix or ".jpg"
SiblingName(name, i) ==
    LET ext == IF Suffix(name) # <<>> THEN Suffix(name) ELSE DotJpg
    IN Stem(name) \o <<"-">> \o IntToStr(i) \o ext

\* the destination names offered by the save dialog in the model
DestNames ==
    { <<"g", ".", "j", "p", "g">>,
      <<"g">>,
      <<"g", ".", "p", "d", "f">>,
      <<"g", ".", "P", "d", "F">>,
      <<"a", ".", "b", ".", "p", "n", "g">>,
      <<".", "g">> }

----------------------------------------------------------------------------
(* Bounds *)

\* most images in the session list of a request
MaxImages == 9

\* number of distinct image paths offered by the file dialog
NumPaths == 3

\* most files in one selection of the file dialog
MaxSelect == 3

\* most appends to the image list in one run
MaxClock == 5

ImagePaths == 1..NumPaths

\* files.get_item(i).get_path() of a file that has no local path
NoPath == 0

\* <<1, ..., n>>
Album(n) == [i \in 1..n |-> i]

RECURSIVE Concat(_)
Concat(ss) == IF Len(ss) = 0 THEN <<>> ELSE ss[1] \o Concat(Tail(ss))

Range(f) == {f[x] : x \in DOMAIN f}

SeqsUpTo(S, n) == UNION {[1..k -> S] : k \in 0..n}

----------------------------------------------------------------------------
(* Session image list: _on_files_ready, _on_remove_image, _on_clear *)

\* variant: "path not in self.images" left out of the condition
RECURSIVE AddFilesNoCheck(_, _, _)
AddFilesNoCheck(imgs, files, k) ==
    IF k = 0 THEN imgs
    ELSE LET before == AddFilesNoCheck(imgs, files, k - 1)
         IN IF files[k] # NoPath THEN Append(before, files[k]) ELSE before

\* the list after the loop of _on_files_ready over the first k files
RECURSIVE AddFiles(_, _, _)
AddFiles(imgs, files, k) ==
    IF k = 0 THEN imgs
    ELSE LET before == AddFiles(imgs, files, k - 1)
             path   == files[k]
         IN IF path # NoPath /\ path \notin Range(before)
            THEN Append(before, path)
            ELSE before

\* list.remove(path): drops the first occurrence
RemoveFirst(imgs, path) ==
    LET k == CHOOSE j \in 1..Len(imgs) :
                 imgs[j] = path /\ \A m \in 1..(j - 1) : imgs[m] # path
    IN SubSeq(imgs, 1, k - 1) \o SubSeq(imgs, k + 1, Len(imgs))

OnFilesReady(files) ==
    /\ pc = "idle"
    /\ LET after == AddFiles(images, files, Len(files))
           added == Len(after) - Len(images)
       IN /\ clock + added <= MaxClock
          /\ images' = after
          /\ clock' = clock + added
          /\ stamp' = [p \in ImagePaths |->
                         IF \E k \in (Len(images) + 1)..Len(after) : after[k] = p
                         THEN clock + (CHOOSE k \in (Len(images) + 1)..Len(after) :
                                           after[k] = p) - Len(images)
                         ELSE stamp[p]]
    /\ UNCHANGED <<uiVars, magick, reqVars, pvVars>>

\* the remove button of a row of the list box
OnRemoveImage(path) ==
    /\ pc = "idle"
    /\ path \in Range(images)
    /\ images' = RemoveFirst(images, path)
    /\ stamp' = [stamp EXCEPT ![path] = 0]
    /\ UNCHANGED <<clock, uiVars, magick, reqVars, pvVars>>

OnClear ==
    /\ pc = "idle"
    /\ images # <<>>
    /\ images' = <<>>
    /\ stamp' = [p \in ImagePaths |-> 0]
    /\ UNCHANGED <<clock, uiVars, magick, reqVars, pvVars>>

----------------------------------------------------------------------------
(* Preview / save requests: _check_ready, _on_preview, _on_generate,        *)
(* _on_save_ready, _run_all_pages, _run_montage                             *)

NoToast == "none"

ToastNoImages == "Add some images first"

ToastNoMagick == "ImageMagick not found - install it first"

ToastError == "Error"

ToastSavedPdf == "Saved PDF"

ToastSavedOne == "Saved to file"

ToastSavedMany == "Saved files"

\* variant: the shutil.which("magick") test left out
CheckReadyImagesOnly == IF images = <<>> THEN ToastNoImages ELSE NoToast

\* the toast _check_ready shows, NoToast when it returns True
CheckReady ==
    IF images = <<>> THEN ToastNoImages
    ELSE IF ~magick THEN ToastNoMagick
    ELSE NoToast

\* _run_all_pages is in use: a preview, or a save as PDF
AllPagesMode == kind = "preview" \/ s[1].pdf

\* the file the page being rendered is written to
PageDest ==
    IF AllPagesMode THEN TmpPath(page)
    ELSE IF Len(chunks) = 1 THEN OutPath(dest)
    ELSE OutPath(SiblingName(dest, page))

\* one subprocess.run of the request
Launch(cmd, inputs, out, status) ==
    [cmd |-> cmd, page |-> page, inputs |-> inputs, dest |-> out,
     dpi |-> s[1].dpi, status |-> status]

\* variant: check=True left out, so a failed command is not noticed and the
\* handler goes on to launch again
FailedRetry ==
    /\ toast' = ToastError
    /\ pc' = pc
    /\ UNCHANGED <<page, pageFiles, pvVars>>

\* except subprocess.CalledProcessError: the error toast, nothing else
Failed ==
    /\ toast' = ToastError
    /\ pc' = "idle"
    /\ UNCHANGED <<page, pageFiles, pvVars>>

\* self._preview_win.close() runs _on_preview_close
ClosePreview ==
    /\ previewWin' = FALSE
    /\ previewPages' = IF previewWin THEN <<>> ELSE previewPages
    /\ UNCHANGED previewIdx

OnPreview ==
    /\ pc = "idle"
    /\ kind' = "preview"
    /\ log' = <<>>
    /\ IF CheckReady # NoToast
       THEN /\ toast' = CheckReady
            /\ events' = <<>>
            /\ UNCHANGED <<s, chunks, pc, page, pageFiles>>
       ELSE /\ s' = <<GatherSettings(PREVIEW_DPI)>>
            /\ events' = <<"gather">>
            /\ chunks' = ChunkImages(images, s'[1])
            /\ page' = 1
            /\ pageFiles' = <<>>
            /\ toast' = NoToast
            /\ pc' = "compose"
    /\ UNCHANGED <<imgVars, uiVars, magick, dest, pvVars>>

OnGenerate ==
    /\ pc = "idle"
    /\ kind' = "save"
    /\ log' = <<>>
    /\ IF CheckReady # NoToast
       THEN /\ toast' = CheckReady
            /\ events' = <<>>
            /\ UNCHANGED <<s, pc>>
       ELSE /\ s' = <<GatherSettings(0)>>
            /\ events' = <<"gather", "dialog">>
            /\ toast' = NoToast
            /\ pc' = "dialog"
    /\ UNCHANGED <<imgVars, uiVars, magick, chunks, dest, page, pageFiles, pvVars>>

\* save_finish raises GLib.Error: the dialog was dismissed
OnSaveCancelled ==
    /\ pc = "dialog"
    /\ pc' = "idle"
    /\ UNCHANGED <<imgVars, uiVars, magick, s, chunks, kind, dest, page,
                   pageFiles, log, events, toast, pvVars>>

OnSaveReady(name) ==
    /\ pc = "dialog"
    /\ dest' = name
    /\ chunks' = ChunkImages(images, s[1])
    /\ page' = 1
    /\ pageFiles' = <<>>
    /\ pc' = "compose"
    /\ UNCHANGED <<imgVars, uiVars, magick, s, kind, log, events, toast, pvVars>>

\* cmd1 of _run_montage: magick montage ... png:-
Compose(status) ==
    /\ pc = "compose"
    /\ log' = Append(log, Launch("compose", chunks[page], <<>>, status))
    /\ IF status = 0
       THEN /\ pc' = "fit"
            /\ UNCHANGED <<page, pageFiles, toast, pvVars>>
       ELSE Failed
    /\ UNCHANGED <<imgVars, uiVars, magick, s, chunks, kind, dest, events>>

\* the request after the last page of a save has been written
Saved(msg) ==
    /\ toast' = msg
    /\ ClosePreview
    /\ pc' = "idle"

\* _show_preview(pages)
ShowPreview(pages) ==
    /\ previewWin' = TRUE
    /\ previewPages' = pages
    /\ previewIdx' = 0
    /\ pc' = "idle"

\* cmd2 of _run_montage: magick - ... dest, and what follows its return
FitToCanvas(status) ==
    /\ pc = "fit"
    /\ log' = Append(log, Launch("fit", <<>>, PageDest, status))
    /\ IF status # 0
       THEN Failed
       ELSE IF AllPagesMode
       THEN /\ pageFiles' = Append(pageFiles, PageDest)
            /\ IF page < Len(chunks)
               THEN /\ page' = page + 1
                    /\ pc' = "compose"
                    /\ UNCHANGED <<toast, pvVars>>
               ELSE IF kind = "preview"
               THEN /\ ShowPreview(pageFiles')
                    /\ UNCHANGED <<page, toast>>
               ELSE /\ pc' = "merge"
                    /\ UNCHANGED <<page, toast, pvVars>>
       ELSE IF Len(chunks) = 1
       THEN /\ Saved(ToastSavedOne)
            /\ UNCHANGED <<page, pageFiles>>
       ELSE IF page < Len(chunks)
       THEN /\ page' = page + 1
            /\ pc' = "compose"
            /\ UNCHANGED <<pageFiles, toast, pvVars>>
       ELSE /\ Saved(ToastSavedMany)
            /\ UNCHANGED <<page, pageFiles>>
    /\ UNCHANGED <<imgVars, uiVars, magick, s, chunks, kind, dest, events>>

\* magick page-1.png ... -density dpi dest.pdf
Merge(status) ==
    /\ pc = "merge"
    /\ log' = Append(log, Launch("merge", pageFiles, OutPath(PdfDest(dest)), status))
    /\ IF status = 0
       THEN /\ Saved(ToastSavedPdf)
            /\ UNCHANGED <<page, pageFiles>>
       ELSE Failed
    /\ UNCHANGED <<imgVars, uiVars, magick, s, chunks, kind, dest, events>>

\* variant: len(self._preview_pages) in place of len(...) - 1
NavIndexPastEnd(idx, direction, n) == Max(0, Min(idx + direction, n))

\* max(0, min(self._preview_idx + direction, len(self._preview_pages) - 1))
NavIndex(idx, direction, n) == Max(0, Min(idx + direction, n - 1))

\* the buttons _show_preview connects: previous is -1, next is 1
NavDirections == {-1, 1}

\* a click on a navigation button of the preview window; the buttons exist
\* only when the preview has more than one page, and the handler clamps
\* whether or not _update_preview_nav has greyed the button out
OnPreviewNav(direction) ==
    /\ pc = "idle"
    /\ previewWin
    /\ Len(previewPages) > 1
    /\ previewIdx' = NavIndex(previewIdx, direction, Len(previewPages))
    /\ UNCHANGED <<previewWin, previewPages, imgVars, uiVars, magick, reqVars>>

\* the close button of the preview window: _on_preview_close
OnPreviewClose ==
    /\ pc = "idle"
    /\ previewWin
    /\ previewWin' = FALSE
    /\ previewPages' = <<>>
    /\ UNCHANGED <<previewIdx, imgVars, uiVars, magick, reqVars>>

\* the tool is installed or removed between two requests
ToolChange ==
    /\ pc = "idle"
    /\ magick' = ~magick
    /\ UNCHANGED <<imgVars, uiVars, reqVars, pvVars>>

ExitStatus == {0, 1}

----------------------------------------------------------------------------
(* Specifications *)

\* the window as constructed, with the form as InitForm leaves it
InitRest ==
    /\ s = <<>>
    /\ chunks = <<>>
    /\ pc = "idle"
    /\ kind = "none"
    /\ dest = <<>>
    /\ page = 0
    /\ pageFiles = <<>>
    /\ log = <<>>
    /\ events = <<>>
    /\ toast = NoToast
    /\ previewWin = FALSE
    /\ previewPages = <<>>
    /\ previewIdx = 0
    /\ stamp = [p \in ImagePaths |-> 0]
    /\ clock = 0

\* the form's values in __init__
DefaultForm ==
    /\ paper = 3
    /\ orient = 0
    /\ dpiSel = 1
    /\ layout = 2
    /\ border = 2
    /\ spacing = 4
    /\ margin = 20
    /\ fill = FALSE
    /\ pdf = FALSE

\* the session image list: add, remove, clear
InitImages ==
    /\ images = <<>>
    /\ DefaultForm
    /\ magick = TRUE
    /\ InitRest

NextImages ==
    \/ \E files \in SeqsUpTo(ImagePaths \cup {NoPath}, MaxSelect) : OnFilesReady(files)
    \/ \E path \in ImagePaths : OnRemoveImage(path)
    \/ OnClear

SpecImages == InitImages /\ [][NextImages]_vars

\* the layout planner over the form's values
InitPlan ==
    /\ images = Album(1)
    /\ magick = TRUE
    /\ paper \in 0..(Len(PAPER_NAMES) - 1)
    /\ orient \in {0, 1}
    /\ dpiSel \in 0..(Len(DPI_CHOICES) - 1)
    /\ layout \in 0..(Len(LAYOUT_NAMES) - 1)
    /\ border \in BorderValues
    /\ spacing \in SpacingValues
    /\ margin \in MarginValues
    /\ fill \in BOOLEAN
    /\ pdf \in BOOLEAN
    /\ InitRest

NextPlan ==
    \/ OnPreview
    \/ OnGenerate

SpecPlan == InitPlan /\ [][NextPlan]_vars

\* chunking over image lists of every length, empty included
ApplyChunk ==
    /\ pc = "idle"
    /\ s' = <<GatherSettings(0)>>
    /\ chunks' = ChunkImages(images, s'[1])
    /\ pc' = "chunked"
    /\ UNCHANGED <<imgVars, uiVars, magick, kind, dest, page, pageFiles, log,
                   events, toast, pvVars>>

InitChunk ==
    /\ images \in {Album(n) : n \in 0..MaxImages}
    /\ magick = TRUE
    /\ paper = 3
    /\ orient = 0
    /\ dpiSel = 1
    /\ layout \in 0..(Len(LAYOUT_NAMES) - 1)
    /\ border = 2
    /\ spacing = 4
    /\ margin = 20
    /\ fill = FALSE
    /\ pdf = FALSE
    /\ InitRest

NextChunk == ApplyChunk

SpecChunk == InitChunk /\ [][NextChunk]_vars

\* preview and save requests over a session that already holds its images
Init ==
    /\ images \in {Album(n) : n \in 0..MaxImages}
    /\ magick \in BOOLEAN
    /\ paper = 3
    /\ orient = 0
    /\ dpiSel \in 0..(Len(DPI_CHOICES) - 1)
    /\ layout \in 0..(Len(LAYOUT_NAMES) - 1)
    /\ border = 2
    /\ spacing = 4
    /\ margin = 20
    /\ fill = FALSE
    /\ pdf \in BOOLEAN
    /\ InitRest

Next ==
    \/ OnPreview
    \/ OnGenerate
    \/ OnSaveCancelled
    \/ \E name \in DestNames : OnSaveReady(name)
    \/ \E status \in ExitStatus : Compose(status)
    \/ \E status \in ExitStatus : FitToCanvas(status)
    \/ \E status \in ExitStatus : Merge(status)
    \/ OnPreviewClose
    \/ OnClear
    \/ ToolChange

Spec == Init /\ [][Next]_vars

\* previews with page navigation, and the saves started from them
InitPreview ==
    /\ images \in {Album(n) : n \in 0..MaxImages}
    /\ magick = TRUE
    /\ paper = 3
    /\ orient = 0
    /\ dpiSel = 1
    /\ layout \in 0..(Len(LAYOUT_NAMES) - 1)
    /\ border = 2
    /\ spacing = 4
    /\ margin = 20
    /\ fill = FALSE
    /\ pdf \in BOOLEAN
    /\ InitRest

NextPreview ==
    \/ OnPreview
    \/ \E direction \in NavDirections : OnPreviewNav(direction)
    \/ OnPreviewClose
    \/ OnGenerate
    \/ OnSaveCancelled
    \/ \E name \in DestNames : OnSaveReady(name)
    \/ \E status \in ExitStatus : Compose(status)
    \/ \E status \in ExitStatus : FitToCanvas(status)
    \/ \E status \in ExitStatus : Merge(status)

SpecPreview == InitPreview /\ [][NextPreview]_vars

----------------------------------------------------------------------------
(* Properties of the layout planner, checked under SpecPlan *)

\* the paper's size in hundredths of an inch, as oriented by the form
OrientedW == PAPERS[PAPER_NAMES[paper + 1]][IF orient = 1 THEN 2 ELSE 1]

OrientedH == PAPERS[PAPER_NAMES[paper + 1]][IF orient = 1 THEN 1 ELSE 2]

FormCols == LAYOUTS[LAYOUT_NAMES[layout + 1]][1]

FormRows == LAYOUTS[LAYOUT_NAMES[layout + 1]][2]

\* px = round(hundredths / 100 * dpi), halves rounded up
IsRounded(px, hundredths, dpi) ==
    /\ 200 * px <= 2 * hundredths * dpi + 100
    /\ 2 * hundredths * dpi + 100 < 200 * (px + 1)

\* px = floor(hundredths / 100 * dpi)
IsTruncated(px, hundredths, dpi) ==
    /\ 100 * px <= hundredths * dpi
    /\ hundredths * dpi < 100 * (px + 1)

\* cell = max(64, floor(num / n)), floor toward minus infinity
IsClampedFloor(cell, num, n) ==
    IF cell > MIN_CELL
    THEN n * cell <= num /\ num < n * (cell + 1)
    ELSE cell = MIN_CELL /\ num < n * (MIN_CELL + 1)

\* C1 as stated: every settings snapshot has cell_w >= 64 and cell_h >= 64,
\* whatever the paper, orientation, DPI (72 included), margin, border,
\* spacing and layout, Contact Sheet included.
C1_Original ==
    s # <<>> => s[1].cell_w >= MIN_CELL /\ s[1].cell_h >= MIN_CELL

\* C1 as amended: a snapshot for a concrete grid layout has cell_w >= 64 and
\* cell_h >= 64; a Contact Sheet snapshot has the unclamped square cell
\* cell_w = cell_h = floor((canvas_w - 2*margin) / 6), which is >= 64 at the
\* selectable DPIs 150, 300 and 600 and positive, but possibly below 64, at
\* the preview DPI of 72.
C1_CellFloor ==
    s # <<>> =>
        LET st == s[1]
        IN /\ st.tile # <<>> => st.cell_w >= MIN_CELL /\ st.cell_h >= MIN_CELL
           /\ st.tile = <<>> =>
                 /\ st.cell_h = st.cell_w
                 /\ CONTACT_COLS * st.cell_w <= st.canvas_w - 2 * st.margin
                 /\ st.canvas_w - 2 * st.margin < CONTACT_COLS * (st.cell_w + 1)
                 /\ st.cell_w > 0
                 /\ st.dpi # PREVIEW_DPI => st.cell_w >= MIN_CELL

\* the clamp has acted on a preview snapshot of a grid with the widest margin
C1_Witness ==
    /\ s # <<>>
    /\ s[1].tile # <<>>
    /\ s[1].dpi = PREVIEW_DPI
    /\ s[1].margin = MARGIN_MAX
    /\ s[1].cell_w = MIN_CELL
    /\ s[1].canvas_w - 2 * s[1].margin - FormCols * 2 * (border + spacing)
           < MIN_CELL * FormCols

\* C2 as stated: at DPI 150, 300 and 600 the canvas is round(width_in * dpi) by
\* round(height_in * dpi), width and height swapped in landscape.
C2_Original ==
    s # <<>> /\ s[1].dpi \in {150, 300, 600} =>
        /\ IsRounded(s[1].canvas_w, OrientedW, s[1].dpi)
        /\ IsRounded(s[1].canvas_h, OrientedH, s[1].dpi)

\* C2 as amended: the canvas is floor(width_in * dpi) by floor(height_in * dpi)
\* (the product truncated, not rounded), width and height swapped in
\* landscape, at every DPI.
C2_CanvasTruncated ==
    s # <<>> =>
        /\ IsTruncated(s[1].canvas_w, OrientedW, s[1].dpi)
        /\ IsTruncated(s[1].canvas_h, OrientedH, s[1].dpi)

\* A5 in landscape at 150 DPI: 8.27 in and 5.83 in give 1240.5 and 874.5
C2_Witness ==
    /\ s # <<>>
    /\ PAPER_NAMES[paper + 1] = "A5"
    /\ orient = 1
    /\ s[1].dpi = 150
    /\ s[1].canvas_w = 1240
    /\ s[1].canvas_h = 874

\* C10: for a concrete grid of C columns and R rows the snapshot has
\* cell_w = max(64, floor((canvas_w - 2*margin - C*2*(border+spacing)) / C)),
\* cell_h likewise with canvas_h and R, floor toward minus infinity, and the
\* tile spec "CxR".
C10_GridCell ==
    s # <<>> /\ FormCols >= 1 /\ FormRows >= 1 =>
        LET st == s[1]
            gap == 2 * (border + spacing)
        IN /\ IsClampedFloor(st.cell_w,
                             st.canvas_w - 2 * margin - FormCols * gap, FormCols)
           /\ IsClampedFloor(st.cell_h,
                             st.canvas_h - 2 * margin - FormRows * gap, FormRows)
           /\ st.tile = <<Digits[FormCols + 1], "x", Digits[FormRows + 1]>>

\* a grid whose numerator is negative in one direction and whose cell is
\* above the floor in the other
C10_Witness ==
    /\ s # <<>>
    /\ FormCols = 1
    /\ FormRows = 2
    /\ s[1].canvas_h - 2 * margin - FormRows * 2 * (border + spacing) < 0
    /\ s[1].cell_h = MIN_CELL
    /\ s[1].cell_w > MIN_CELL

----------------------------------------------------------------------------
(* Properties of chunking, checked under SpecChunk *)

\* C3: for a concrete grid C x R and an image list of length n, chunking
\* gives exactly ceil(n / (C*R)) chunks, each but possibly the last of C*R
\* images, the last one non-empty, and the chunks concatenated in order are
\* the image list; an empty list gives zero chunks.
C3_GridChunks ==
    pc = "chunked" /\ FormCols >= 1 /\ FormRows >= 1 =>
        LET cap == FormCols * FormRows
            n   == Len(images)
            k   == Len(chunks)
        IN /\ k * cap >= n
           /\ k > 0 => (k - 1) * cap < n
           /\ n = 0 => k = 0
           /\ \A i \in 1..(k - 1) : Len(chunks[i]) = cap
           /\ k > 0 => Len(chunks[k]) >= 1 /\ Len(chunks[k]) <= cap
           /\ Concat(chunks) = images

\* nine images on the 2 x 2 grid: chunks of 4, 4 and 1 images
C3_Witness ==
    /\ pc = "chunked"
    /\ LAYOUT_NAMES[layout + 1] = "2 x 2 (4)"
    /\ Len(images) = 9
    /\ Len(chunks) = 3
    /\ Len(chunks[1]) = 4
    /\ Len(chunks[2]) = 4
    /\ chunks[3] = <<9>>

\* C4: in Contact Sheet mode the tile spec is empty and chunking gives exactly
\* one chunk, the whole image list in its order, for every image count.
C4_ContactSheetOneChunk ==
    pc = "chunked" /\ LAYOUT_NAMES[layout + 1] = "Contact Sheet" =>
        /\ s[1].tile = <<>>
        /\ Len(chunks) = 1
        /\ chunks[1] = images

\* a contact sheet of nine images, more than one row of CONTACT_COLS
C4_Witness ==
    /\ pc = "chunked"
    /\ s[1].tile = <<>>
    /\ Len(images) = 9
    /\ chunks = <<images>>

----------------------------------------------------------------------------
(* Properties of the session image list, checked under SpecImages *)

\* C5: after any sequence of add-images (selections may repeat paths that are
\* present, or repeat a path within the selection), remove-image and clear,
\* the image list holds no path twice and holds its paths in the order in
\* which they were appended.
C5_UniqueInOrder ==
    \A i \in 1..Len(images) : \A j \in 1..Len(images) :
        i < j => /\ images[i] # images[j]
                 /\ stamp[images[i]] > 0
                 /\ stamp[images[i]] < stamp[images[j]]

\* three paths listed in an order other than that of their first appends,
\* after removals and repeated selections
C5_Witness ==
    /\ Len(images) = 3
    /\ images[1] > images[3]
    /\ clock = 5

----------------------------------------------------------------------------
(* Properties of preview and save requests, checked under Spec *)

PreconditionToasts == {ToastNoImages, ToastNoMagick}

SuccessToasts == {ToastSavedPdf, ToastSavedOne, ToastSavedMany}

\* the positions of the log that hold a launch of cmd
LaunchesOf(cmd) == {j \in 1..Len(log) : log[j].cmd = cmd}

\* the save request has returned and every command it launched exited 0
SaveSucceeded ==
    /\ pc = "idle"
    /\ kind = "save"
    /\ log # <<>>
    /\ \A j \in 1..Len(log) : log[j].status = 0

\* C6: a preview or generate request made while the image list is empty or the
\* tool is not on the search path ends with a precondition notification; no
\* settings are gathered, no save dialog is opened and no subprocess is
\* launched for it.
C6_NotReadyNothingLaunched ==
    /\ [][(OnPreview \/ OnGenerate) /\ (images = <<>> \/ ~magick) =>
             /\ toast' \in PreconditionToasts
             /\ toast' = ToastNoImages <=> images = <<>>
             /\ pc' = "idle"
             /\ log' = <<>>
             /\ events' = <<>>
             /\ s' = s]_vars
    /\ [](toast \in PreconditionToasts =>
             pc = "idle" /\ log = <<>> /\ events = <<>>)

\* Save As pressed in an open preview after the tool has gone
C6_Witness ==
    /\ kind = "save"
    /\ toast = ToastNoMagick
    /\ images # <<>>
    /\ previewWin
    /\ previewPages # <<>>
    /\ log = <<>>
    /\ events = <<>>

\* C7: the pages of a request are rendered one at a time in increasing page
\* order (compose, then fit-to-canvas, page by page; a merge only last); once
\* a compose or fit-to-canvas of page i has exited non-zero, nothing more is
\* launched and the request ends with the error notification, not a success.
C7_InOrderAbortOnFailure ==
    /\ \A j \in 1..Len(log) :
          \/ /\ log[j].cmd = IF j % 2 = 1 THEN "compose" ELSE "fit"
             /\ log[j].page = (j + 1) \div 2
             /\ log[j].page <= Len(chunks)
          \/ /\ log[j].cmd = "merge"
             /\ j = Len(log)
             /\ j = 2 * Len(chunks) + 1
    /\ \A j \in 1..Len(log) :
          log[j].status # 0 =>
              /\ j = Len(log)
              /\ pc = "idle"
              /\ toast = ToastError
    /\ toast = ToastError => log # <<>> /\ log[Len(log)].status # 0
    /\ toast \in SuccessToasts => \A j \in 1..Len(log) : log[j].status = 0

\* the fit-to-canvas of page 2 of a three-page save has failed
C7_Witness ==
    /\ kind = "save"
    /\ pc = "idle"
    /\ Len(chunks) = 3
    /\ Len(log) = 4
    /\ log[4].cmd = "fit"
    /\ log[4].status # 0
    /\ toast = ToastError

\* the sibling file names of a successful save of several files: chunk i is
\* composed and written to names[i], in order, and nothing else is written
SavedAsSiblings(names) ==
    /\ toast = ToastSavedMany
    /\ Len(log) = 2 * Len(chunks)
    /\ LaunchesOf("merge") = {}
    /\ \A i \in 1..Len(chunks) :
          /\ log[2 * i - 1].cmd = "compose"
          /\ log[2 * i - 1].inputs = chunks[i]
          /\ log[2 * i].cmd = "fit"
          /\ log[2 * i].dest = OutPath(names[i])
    /\ \A j \in 1..Len(log) : log[j].dest # OutPath(dest)
    /\ Cardinality({log[j].dest : j \in LaunchesOf("fit")}) = Len(chunks)

\* C8 as stated: a successful save of N >= 2 chunks outside document mode to
\* the destination stem+ext writes chunk i to stem-i+ext, for i = 1..N in
\* order, and writes nothing else.
C8_Original ==
    SaveSucceeded /\ ~s[1].pdf /\ Len(chunks) >= 2 =>
        SavedAsSiblings([i \in 1..Len(chunks) |->
            Stem(dest) \o <<"-">> \o IntToStr(i) \o Suffix(dest)])

\* C8 as amended: the same, where ext is the destination's suffix (from its
\* last dot, when that dot is neither its first nor its last character) and
\* ".jpg" when the destination has no suffix; nine images on the 2 x 2 grid
\* saved to g.jpg give chunks of 4, 4 and 1 images in g-1.jpg, g-2.jpg, g-3.jpg.
C8_SiblingFiles ==
    SaveSucceeded /\ ~s[1].pdf /\ Len(chunks) >= 2 =>
        /\ SavedAsSiblings([i \in 1..Len(chunks) |->
              Stem(dest) \o <<"-">> \o IntToStr(i)
                  \o (IF HasSuffix(dest) THEN Suffix(dest) ELSE DotJpg)])
        /\ Len(Concat(chunks)) = 9 /\ s[1].tile = <<"2", "x", "2">>
              /\ dest = <<"g", ".", "j", "p", "g">> =>
              /\ [i \in 1..3 |-> Len(chunks[i])] = <<4, 4, 1>>
              /\ [i \in 1..3 |-> log[2 * i].dest.name] =
                    << <<"g", "-", "1", ".", "j", "p", "g">>,
                       <<"g", "-", "2", ".", "j", "p", "g">>,
                       <<"g", "-", "3", ".", "j", "p", "g">> >>

\* nine images on the 2 x 2 grid saved to g.jpg
C8_Witness ==
    /\ SaveSucceeded
    /\ ~s[1].pdf
    /\ s[1].tile = <<"2", "x", "2">>
    /\ Len(chunks) = 3
    /\ chunks[3] = <<9>>
    /\ dest = <<"g", ".", "j", "p", "g">>
    /\ log[6].dest.name = <<"g", "-", "3", ".", "j", "p", "g">>

\* C9: in document mode a save launches the merge at most once, and only after
\* every chunk has been composed and fitted successfully to a temporary page
\* file of its own; the merge gets the page files in page order and the
\* configured DPI and writes one path, the destination with ".pdf" appended
\* unless it already ends in ".pdf" in any letter case; a save that succeeds
\* has launched it exactly once.
C9_MergeOnceAfterAllPages ==
    kind = "save" /\ s # <<>> /\ s[1].pdf =>
        /\ Cardinality(LaunchesOf("merge")) <= 1
        /\ SaveSucceeded => Cardinality(LaunchesOf("merge")) = 1
        /\ \A j \in LaunchesOf("merge") :
              LET n == Len(chunks)
              IN /\ j = 2 * n + 1
                 /\ \A m \in 1..(j - 1) : log[m].status = 0
                 /\ Len(log[j].inputs) = n
                 /\ \A i \in 1..n :
                       /\ log[2 * i - 1].inputs = chunks[i]
                       /\ log[2 * i].cmd = "fit"
                       /\ log[2 * i].dest = log[j].inputs[i]
                       /\ log[j].inputs[i].dir = "tmp"
                       /\ \A i2 \in 1..n :
                             i # i2 => log[j].inputs[i] # log[j].inputs[i2]
                 /\ log[j].dpi = DPI_CHOICES[dpiSel + 1]
                 /\ log[j].dest.dir = "out"
                 /\ EndsWith(Lower(log[j].dest.name), DotPdf)
                 /\ log[j].dest.name =
                       IF Len(dest) >= 4
                          /\ Lower(SubSeq(dest, Len(dest) - 3, Len(dest))) = DotPdf
                       THEN dest
                       ELSE dest \o DotPdf

\* a PDF of several pages saved to a destination that already ends in .PdF
C9_Witness ==
    /\ SaveSucceeded
    /\ s[1].pdf
    /\ toast = ToastSavedPdf
    /\ Len(chunks) >= 2
    /\ dest = <<"g", ".", "P", "d", "F">>
    /\ log[Len(log)].cmd = "merge"
    /\ log[Len(log)].dest = OutPath(dest)

----------------------------------------------------------------------------
(* Properties of preview navigation, checked under SpecPreview *)

\* C11: while a preview window showing n >= 1 pages is open, the preview
\* index is within 0..n-1 after any sequence of previous / next clicks: it
\* starts at 0 when the window is shown, a click moves it by one page, and a
\* click at either end leaves it unchanged; the page displayed is one of the
\* pages rendered for that preview.
C11_PreviewIndexInRange ==
    /\ [](previewWin =>
             /\ Len(previewPages) >= 1
             /\ previewIdx \in 0..(Len(previewPages) - 1)
             /\ previewPages = [i \in 1..Len(previewPages) |-> TmpPath(i)]
             /\ previewPages[previewIdx + 1] \in Range(previewPages))
    /\ [][\/ ~previewWin /\ previewWin'
          \/ kind = "preview" /\ pc = "fit" /\ pc' = "idle" /\ toast' # ToastError
          => previewWin' /\ previewIdx' = 0]_vars
    /\ [][(\E direction \in NavDirections : OnPreviewNav(direction)) =>
             /\ previewIdx = 0 =>
                   previewIdx' \in {0, 1}
             /\ previewIdx = Len(previewPages) - 1 =>
                   previewIdx' \in {previewIdx - 1, previewIdx}
             /\ previewIdx' \in {previewIdx - 1, previewIdx, previewIdx + 1}]_vars

\* the last of three preview pages is displayed, so next has been clicked
\* at least twice
C11_Witness ==
    /\ previewWin
    /\ Len(previewPages) = 3
    /\ previewIdx = 2
    /\ pc = "idle"

=============================================================================
